---- MODULE Spec2Model ----
(***************************************************************************)
(* Model of the bracket-pool backend (main.py, models.py): the entries     *)
(* table, the request handlers run by the framework's worker threads, the  *)
(* wall clock the deadline is compared against, and the out-of-band        *)
(* process that writes score and locked.                                   *)
(*                                                                         *)
(* Text is a sequence of one-character strings, so that lower(), strip()   *)
(* and endswith() are computed rather than assumed.  A nullable column or  *)
(* Optional value is <<>> (None) or <<v>> (the value v).                   *)
(***************************************************************************)
EXTENDS Integers, Sequences, FiniteSets, TLC

----------------------------------------------------------------------------
(* Bounds of the model *)

\* worker threads of the framework's pool that run handlers concurrently
NumWorkers == 2
\* last instant of the modelled wall clock
MaxTime == 3

(* BRACKET_DEADLINE, as an instant of the modelled clock *)
BRACKET_DEADLINE == 2

Workers == 1..NumWorkers
\* a single worker, where requests are served one at a time
OneWorker == {1}

----------------------------------------------------------------------------
(* Python values *)

None == <<>>
Some(v) == <<v>>

\* truthiness of an Optional[str] / nullable Text: None and "" are falsy
Truthy(opt) == opt /= None /\ opt[1] /= <<>>

ToLower ==
  [A |-> "a", B |-> "b", C |-> "c", D |-> "d", E |-> "e", F |-> "f", G |-> "g",
   H |-> "h", I |-> "i", J |-> "j", K |-> "k", L |-> "l", M |-> "m", N |-> "n",
   O |-> "o", P |-> "p", Q |-> "q", R |-> "r", S |-> "s", T |-> "t", U |-> "u",
   V |-> "v", W |-> "w", X |-> "x", Y |-> "y", Z |-> "z"]

\* str.lower()
Lower(s) == [i \in 1..Len(s) |-> IF s[i] \in DOMAIN ToLower THEN ToLower[s[i]] ELSE s[i]]

Whitespace == {" ", "\t", "\n", "\r"}

RECURSIVE LStrip(_)
LStrip(s) == IF s /= <<>> /\ Head(s) \in Whitespace THEN LStrip(Tail(s)) ELSE s

RECURSIVE RStrip(_)
RStrip(s) ==
  IF s /= <<>> /\ s[Len(s)] \in Whitespace THEN RStrip(SubSeq(s, 1, Len(s) - 1)) ELSE s

\* str.strip()
Strip(s) == RStrip(LStrip(s))

\* str.endswith(suffix)
EndsWith(s, suffix) ==
  /\ Len(s) >= Len(suffix)
  /\ SubSeq(s, Len(s) - Len(suffix) + 1, Len(s)) = suffix

\* the literal "@stevens.edu"
StevensSuffix == <<"@", "s", "t", "e", "v", "e", "n", "s", ".", "e", "d", "u">>

----------------------------------------------------------------------------
(* json.dumps / json.loads on bracket documents *)

\* A document (a Python dict) is a sequence of <<key, value>> pairs with
\* distinct keys, in insertion order.  A value is a string or a nested dict.
StrVal(s) == [tag |-> "str", s |-> s, o |-> <<>>]
ObjVal(d) == [tag |-> "obj", s |-> "", o |-> d]

\* tokens of the JSON text
Punct(c) == [t |-> c, v |-> ""]
StrTok(s) == [t |-> "str", v |-> s]

RECURSIVE DumpsObj(_)
RECURSIVE DumpsMembers(_)

DumpsValue(v) == IF v.tag = "str" THEN <<StrTok(v.s)>> ELSE DumpsObj(v.o)

DumpsMembers(d) ==
  IF d = <<>> THEN <<>>
  ELSE <<StrTok(d[1][1]), Punct(":")>> \o DumpsValue(d[1][2])
         \o (IF Len(d) > 1 THEN <<Punct(",")>> ELSE <<>>)
         \o DumpsMembers(Tail(d))

DumpsObj(d) == <<Punct("{")>> \o DumpsMembers(d) \o <<Punct("}")>>

\* json.dumps(bracket)
JsonDumps(d) == DumpsObj(d)

\* dict assignment d[k] = v: replaces the value of an existing key in place,
\* appends a new key
RECURSIVE DictSet(_, _, _)
DictSet(d, k, v) ==
  IF d = <<>> THEN <<<<k, v>>>>
  ELSE IF d[1][1] = k THEN <<<<k, v>>>> \o Tail(d)
  ELSE <<d[1]>> \o DictSet(Tail(d), k, v)

\* The decoder: each parser takes the remaining tokens and returns the value
\* read and the tokens left.
RECURSIVE ParseObj(_)
RECURSIVE ParseMembers(_, _)

ParseValue(toks) ==
  IF Head(toks).t = "str"
  THEN [val |-> StrVal(Head(toks).v), rest |-> Tail(toks)]
  ELSE LET r == ParseObj(toks) IN [val |-> ObjVal(r.val), rest |-> r.rest]

\* toks starts at a key; acc is the dict read so far
ParseMembers(toks, acc) ==
  LET key == Head(toks).v
      r == ParseValue(Tail(Tail(toks)))
      acc2 == DictSet(acc, key, r.val)
  IN IF Head(r.rest).t = ","
     THEN ParseMembers(Tail(r.rest), acc2)
     ELSE [val |-> acc2, rest |-> Tail(r.rest)]

\* toks starts at "{"
ParseObj(toks) ==
  IF Head(Tail(toks)).t = "}"
  THEN [val |-> <<>>, rest |-> Tail(Tail(toks))]
  ELSE ParseMembers(Tail(toks), <<>>)

\* json.loads(text)
JsonLoads(text) == ParseObj(text).val

----------------------------------------------------------------------------
(* Requests the clients send *)

\* EntryCreate bodies: name, email, username
EntryCreate(name, email, username) == [name |-> name, email |-> email, username |-> username]

RegInputs ==
  { EntryCreate(<<" ", "A", "l", " ">>, <<"a">> \o StevensSuffix, None),
    EntryCreate(<<"A", "l">>,
                <<"A", "@", "S", "t", "e", "v", "e", "n", "s", ".", "E", "D", "U", " ">>,
                Some(<<" ", "a", "l">>)),
    EntryCreate(<<"B", "o">>, <<"b">> \o StevensSuffix, Some(<<>>)),
    EntryCreate(<<"C", "y">>, <<"a", "@", "g", "m", "a", "i", "l", ".", "c", "o", "m">>,
                Some(<<"c", "y">>)),
    EntryCreate(<<"D">>, <<"b">> \o StevensSuffix \o <<".", "c", "o">>, None) }

\* two distinct registrants, for the bracket lifecycle
BracketInputs ==
  { EntryCreate(<<"A", "l">>, <<"a">> \o StevensSuffix, None),
    EntryCreate(<<"B", "o">>, <<"b">> \o StevensSuffix, None) }

\* three distinct registrants, for the listings
BoardInputs ==
  BracketInputs \cup { EntryCreate(<<"C", "y">>, <<"c">> \o StevensSuffix, None) }

\* bracket documents
Docs ==
  { <<>>,
    << <<"east", StrVal("duke")>>, <<"final", ObjVal(<< <<"champ", StrVal("unc")>> >>)>> >>,
    << <<"east", StrVal("unc")>> >> }

\* values the scoring process writes
Scores == {10, 20}

----------------------------------------------------------------------------
(* The entries table (models.py) *)

\* Entry(name=..., email=..., username=...) as inserted: id is the next
\* primary key, bracket is NULL, score and locked take their column
\* defaults, created_at is the server's now()
NewRow(tbl, new_entry, t) ==
  [id |-> Len(tbl) + 1,
   name |-> new_entry.name,
   email |-> new_entry.email,
   username |-> new_entry.username,
   bracket |-> None,
   score |-> 0,
   locked |-> FALSE,
   created_at |-> t]

\* the table without its constraint
NoConstraint(tbl, email) == FALSE

\* UniqueConstraint("email"): would a row with this email break it?
UniqueViolation(tbl, email) == \E i \in 1..Len(tbl) : tbl[i].email = email

\* a pre-check that finds nothing
QueryNothing(tbl, email) == None

\* db.query(Entry).filter(Entry.email == email).first()
QueryByEmail(tbl, email) ==
  IF \E i \in 1..Len(tbl) : tbl[i].email = email
  THEN Some(tbl[CHOOSE i \in 1..Len(tbl) : tbl[i].email = email])
  ELSE None

\* db.query(Entry).filter(Entry.id == entry_id).first()
QueryById(tbl, entry_id) ==
  IF entry_id \in 1..Len(tbl) THEN Some(tbl[entry_id]) ELSE None

\* the orderings of the rows that ORDER BY may return: every permutation in
\* which no row comes after one it must precede; rows with equal keys come
\* in any order.  precedes[a, b] tells whether row a must precede row b.
OrderBy(tbl, precedes) ==
  { p \in [1..Len(tbl) -> 1..Len(tbl)] :
      /\ \A i, j \in 1..Len(tbl) : i /= j => p[i] /= p[j]
      /\ \A i, j \in 1..Len(tbl) : i < j => ~precedes[p[j], p[i]] }

\* order_by(Entry.created_at.asc())
ByCreatedAt(a, b) == a.created_at < b.created_at

\* the ordering with the score ascending
ByScoreAscending(a, b) ==
  \/ a.score < b.score
  \/ a.score = b.score /\ a.created_at < b.created_at

\* order_by(Entry.score.desc(), Entry.created_at.asc())
ByScoreThenCreatedAt(a, b) ==
  \/ a.score > b.score
  \/ a.score = b.score /\ a.created_at < b.created_at

----------------------------------------------------------------------------
(* State *)

VARIABLES
  store,   \* the rows of the entries table, by id
  now,     \* the wall clock
  pc,      \* where each worker is in the handler it runs
  req,     \* the request each worker is serving
  loc,     \* the handler's local variables
  resp     \* the response each worker has produced

vars == <<store, now, pc, req, loc, resp>>

NoReq == [op |-> "", entry |-> EntryCreate(<<>>, <<>>, None), entry_id |-> 0, bracket |-> <<>>]
NoLoc == [email_norm |-> <<>>, entry |-> None]
NoResp == [status |-> 0, detail |-> "", body |-> <<>>]

Init ==
  /\ store = <<>>
  /\ now = 0
  /\ pc = [w \in Workers |-> "idle"]
  /\ req = [w \in Workers |-> NoReq]
  /\ loc = [w \in Workers |-> NoLoc]
  /\ resp = [w \in Workers |-> NoResp]

\* raise HTTPException(status_code, detail) / return body
Finish(w, status, detail, body) ==
  /\ pc' = [pc EXCEPT ![w] = "done"]
  /\ resp' = [resp EXCEPT ![w] = [status |-> status, detail |-> detail, body |-> body]]

\* a deadline check that still admits the deadline instant itself
DeadlineStrictlyPassed(now_et) == now_et > BRACKET_DEADLINE

\* _deadline_passed()
DeadlinePassed(now_et) == now_et >= BRACKET_DEADLINE

----------------------------------------------------------------------------
(* POST /entries: create_entry *)

\* email_norm = entry.email.lower().strip()
EmailNorm(email) == Strip(Lower(email))

\* Entry(name=entry.name.strip(), email=email_norm,
\*       username=(entry.username.strip() if entry.username else None))
NewEntry(entry, email_norm) ==
  [name |-> Strip(entry.name),
   email |-> email_norm,
   username |-> IF Truthy(entry.username) THEN Some(Strip(entry.username[1])) ELSE None]

\* a domain check that admits every address
AnyDomain(email_norm) == TRUE

\* email_norm.endswith("@stevens.edu")
DomainOk(email_norm) == EndsWith(email_norm, StevensSuffix)

\* the deadline check, the normalisation and the domain check
CreateEntryBegin(w, entry) ==
  /\ pc[w] = "idle"
  /\ req' = [req EXCEPT ![w] = [NoReq EXCEPT !.op = "create_entry", !.entry = entry]]
  /\ IF DeadlinePassed(now)
     THEN /\ Finish(w, 403, "Bracket entry is closed (deadline passed).", <<>>)
          /\ UNCHANGED loc
     ELSE IF ~DomainOk(EmailNorm(entry.email))
     THEN /\ Finish(w, 400, "Use your @stevens.edu email", <<>>)
          /\ UNCHANGED loc
     ELSE /\ pc' = [pc EXCEPT ![w] = "create_query"]
          /\ loc' = [loc EXCEPT ![w].email_norm = EmailNorm(entry.email)]
          /\ UNCHANGED resp
  /\ UNCHANGED <<store, now>>

\* the pre-check query for an entry with this email
CreateEntryQuery(w) ==
  /\ pc[w] = "create_query"
  /\ IF QueryByEmail(store, loc[w].email_norm) /= None
     THEN Finish(w, 409, "Email already used", <<>>)
     ELSE /\ pc' = [pc EXCEPT ![w] = "create_commit"]
          /\ UNCHANGED resp
  /\ UNCHANGED <<store, now, req, loc>>

\* db.add(new_entry); db.commit(); db.refresh(new_entry): the INSERT, which
\* the unique constraint on email rejects with an IntegrityError that the
\* handler does not catch
CreateEntryCommit(w) ==
  /\ pc[w] = "create_commit"
  /\ LET new_entry == NewEntry(req[w].entry, loc[w].email_norm)
         row == NewRow(store, new_entry, now)
     IN IF UniqueViolation(store, new_entry.email)
        THEN /\ Finish(w, 500, "Internal Server Error", <<>>)
             /\ UNCHANGED store
        ELSE /\ store' = Append(store, row)
             /\ Finish(w, 200, "",
                       [id |-> row.id, name |-> row.name, email |-> row.email,
                        username |-> row.username])
  /\ UNCHANGED <<now, req, loc>>

----------------------------------------------------------------------------
(* POST /entries/{entry_id}/bracket: submit_bracket *)

\* dict.update: the pairs of e written into d
RECURSIVE DictUpdate(_, _)
DictUpdate(d, e) ==
  IF e = <<>> THEN d ELSE DictUpdate(DictSet(d, e[1][1], e[1][2]), Tail(e))

\* an assignment that merges the new document into the stored one
MergeBracket(entry, bracket) ==
  [entry EXCEPT !.bracket =
     Some(JsonDumps(DictUpdate(
       IF Truthy(entry.bracket) THEN JsonLoads(entry.bracket[1]) ELSE <<>>, bracket)))]

\* entry.bracket = json.dumps(bracket), on the loaded object
AssignBracket(entry, bracket) == [entry EXCEPT !.bracket = Some(JsonDumps(bracket))]

\* a commit that writes every column of the loaded object back
FlushRow(tbl, entry) == [tbl EXCEPT ![entry.id] = entry]

\* db.commit() of a loaded object whose bracket attribute was assigned:
\* UPDATE entries SET bracket = ... WHERE id = ...
FlushBracket(tbl, entry) ==
  [tbl EXCEPT ![entry.id] = [@ EXCEPT !.bracket = entry.bracket]]

\* the query for the entry
SubmitBracketQuery(w, entry_id, bracket) ==
  /\ pc[w] = "idle"
  /\ req' = [req EXCEPT ![w] =
               [NoReq EXCEPT !.op = "submit_bracket", !.entry_id = entry_id,
                             !.bracket = bracket]]
  /\ IF QueryById(store, entry_id) = None
     THEN /\ Finish(w, 404, "Entry not found", <<>>)
          /\ UNCHANGED loc
     ELSE /\ pc' = [pc EXCEPT ![w] = "submit_check"]
          /\ loc' = [loc EXCEPT ![w].entry = QueryById(store, entry_id)]
          /\ UNCHANGED resp
  /\ UNCHANGED <<store, now>>

\* a lock check that never finds the entry locked
NeverLocked(entry) == FALSE

\* entry.locked, of the loaded object
IsLocked(entry) == entry.locked

\* the deadline check and the lock check on the loaded object
SubmitBracketCheck(w) ==
  /\ pc[w] = "submit_check"
  /\ IF DeadlinePassed(now)
     THEN Finish(w, 403, "Bracket submissions are closed (deadline passed).", <<>>)
     ELSE IF IsLocked(loc[w].entry[1])
     THEN Finish(w, 403, "Bracket is locked", <<>>)
     ELSE /\ pc' = [pc EXCEPT ![w] = "submit_commit"]
          /\ UNCHANGED resp
  /\ UNCHANGED <<store, now, req, loc>>

\* entry.bracket = json.dumps(bracket); db.commit()
SubmitBracketCommit(w) ==
  /\ pc[w] = "submit_commit"
  /\ store' = FlushBracket(store, AssignBracket(loc[w].entry[1], req[w].bracket))
  /\ Finish(w, 200, "", [status |-> "saved", entry_id |-> req[w].entry_id])
  /\ UNCHANGED <<now, req, loc>>

----------------------------------------------------------------------------
(* The read handlers *)

\* json.loads(e.bracket) if e.bracket else {}
BracketOf(e) == IF Truthy(e.bracket) THEN JsonLoads(e.bracket[1]) ELSE <<>>

\* GET /
Home(w) ==
  /\ pc[w] = "idle"
  /\ req' = [req EXCEPT ![w] = [NoReq EXCEPT !.op = "home"]]
  /\ Finish(w, 200, "", [status |-> "ok", message |-> "Bracket app is running"])
  /\ UNCHANGED <<store, now, loc>>

ListRow(e) ==
  [id |-> e.id, name |-> e.name, username |-> e.username, bracket |-> BracketOf(e),
   locked |-> e.locked]

\* GET /entries: list_entries
ListEntries(w) ==
  /\ pc[w] = "idle"
  /\ req' = [req EXCEPT ![w] = [NoReq EXCEPT !.op = "list_entries"]]
  /\ \E p \in OrderBy(store, [a, b \in 1..Len(store) |-> ByCreatedAt(store[a], store[b])]) :
       Finish(w, 200, "", [i \in 1..Len(store) |-> ListRow(store[p[i]])])
  /\ UNCHANGED <<store, now, loc>>

EntryBody(e) ==
  [id |-> e.id, name |-> e.name, email |-> e.email, username |-> e.username,
   bracket |-> BracketOf(e), locked |-> e.locked, score |-> e.score]

\* GET /entries/{entry_id}: get_entry
GetEntry(w, entry_id) ==
  /\ pc[w] = "idle"
  /\ req' = [req EXCEPT ![w] = [NoReq EXCEPT !.op = "get_entry", !.entry_id = entry_id]]
  /\ IF QueryById(store, entry_id) = None
     THEN Finish(w, 404, "Entry not found", <<>>)
     ELSE Finish(w, 200, "", EntryBody(QueryById(store, entry_id)[1]))
  /\ UNCHANGED <<store, now, loc>>

ViewBody(e) ==
  [id |-> e.id, name |-> e.name, email |-> e.email, username |-> e.username,
   bracket |-> BracketOf(e), locked |-> e.locked]

\* GET /view-bracket/{entry_id}: view_bracket
ViewBracket(w, entry_id) ==
  /\ pc[w] = "idle"
  /\ req' = [req EXCEPT ![w] = [NoReq EXCEPT !.op = "view_bracket", !.entry_id = entry_id]]
  /\ IF QueryById(store, entry_id) = None
     THEN Finish(w, 404, "Entry not found", <<>>)
     ELSE Finish(w, 200, "", ViewBody(QueryById(store, entry_id)[1]))
  /\ UNCHANGED <<store, now, loc>>

LeaderboardRow(e) ==
  [id |-> e.id, name |-> e.name, username |-> e.username, score |-> e.score,
   locked |-> e.locked]

\* GET /leaderboard: leaderboard
Leaderboard(w) ==
  /\ pc[w] = "idle"
  /\ req' = [req EXCEPT ![w] = [NoReq EXCEPT !.op = "leaderboard"]]
  /\ \E p \in OrderBy(store,
                      [a, b \in 1..Len(store) |-> ByScoreThenCreatedAt(store[a], store[b])]) :
       Finish(w, 200, "", [i \in 1..Len(store) |-> LeaderboardRow(store[p[i]])])
  /\ UNCHANGED <<store, now, loc>>

----------------------------------------------------------------------------
(* The environment *)

\* the response is sent and the worker takes the next request
Respond(w) ==
  /\ pc[w] = "done"
  /\ pc' = [pc EXCEPT ![w] = "idle"]
  /\ req' = [req EXCEPT ![w] = NoReq]
  /\ loc' = [loc EXCEPT ![w] = NoLoc]
  /\ resp' = [resp EXCEPT ![w] = NoResp]
  /\ UNCHANGED <<store, now>>

\* time passes
Tick ==
  /\ now < MaxTime
  /\ now' = now + 1
  /\ UNCHANGED <<store, pc, req, loc, resp>>

\* the out-of-band process locks an entry
AdminLock(entry_id) ==
  /\ ~store[entry_id].locked
  /\ store' = [store EXCEPT ![entry_id].locked = TRUE]
  /\ UNCHANGED <<now, pc, req, loc, resp>>

\* the out-of-band process writes an entry's score
AdminScore(entry_id, score) ==
  /\ store[entry_id].score /= score
  /\ store' = [store EXCEPT ![entry_id].score = score]
  /\ UNCHANGED <<now, pc, req, loc, resp>>

\* the three steps of create_entry, run by the workers W on the bodies Inputs
CreateEntry(W, Inputs) ==
  \/ \E w \in W, entry \in Inputs : CreateEntryBegin(w, entry)
  \/ \E w \in W : CreateEntryQuery(w)
  \/ \E w \in W : CreateEntryCommit(w)

\* the three steps of submit_bracket
SubmitBracket(W) ==
  \/ \E w \in W, entry_id \in 1..Len(store) + 1, bracket \in Docs :
       SubmitBracketQuery(w, entry_id, bracket)
  \/ \E w \in W : SubmitBracketCheck(w)
  \/ \E w \in W : SubmitBracketCommit(w)

\* the whole system
Next ==
  \/ CreateEntry(Workers, RegInputs \cup BoardInputs)
  \/ SubmitBracket(Workers)
  \/ \E w \in Workers : Home(w)
  \/ \E w \in Workers : ListEntries(w)
  \/ \E w \in Workers, entry_id \in 1..Len(store) + 1 : GetEntry(w, entry_id)
  \/ \E w \in Workers, entry_id \in 1..Len(store) + 1 : ViewBracket(w, entry_id)
  \/ \E w \in Workers : Leaderboard(w)
  \/ \E w \in Workers : Respond(w)
  \/ Tick
  \/ \E entry_id \in 1..Len(store) : AdminLock(entry_id)
  \/ \E entry_id \in 1..Len(store), score \in Scores : AdminScore(entry_id, score)

Spec == Init /\ [][Next]_vars

\* Registration alone: concurrent create_entry requests against the clock
NextRegister ==
  \/ CreateEntry(Workers, RegInputs)
  \/ \E w \in Workers : Respond(w)
  \/ Tick

SpecRegister == Init /\ [][NextRegister]_vars

\* The bracket lifecycle: one worker serving registration, submission and
\* lookup while the clock advances and the out-of-band process locks and
\* scores entries
NextBracket ==
  \/ CreateEntry(OneWorker, BracketInputs)
  \/ SubmitBracket(OneWorker)
  \/ \E w \in OneWorker, entry_id \in 1..Len(store) + 1 : GetEntry(w, entry_id)
  \/ \E w \in OneWorker : Respond(w)
  \/ Tick
  \/ \E entry_id \in 1..Len(store) : AdminLock(entry_id)
  \/ \E entry_id \in 1..Len(store), score \in Scores : AdminScore(entry_id, score)

SpecBracket == Init /\ [][NextBracket]_vars

\* The read side: one worker serving the listings while entries are created
\* and scored
NextBoard ==
  \/ CreateEntry(OneWorker, BoardInputs)
  \/ \E w \in OneWorker : Home(w)
  \/ \E w \in OneWorker : ListEntries(w)
  \/ \E w \in OneWorker, entry_id \in 1..Len(store) + 1 : ViewBracket(w, entry_id)
  \/ \E w \in OneWorker : Leaderboard(w)
  \/ \E w \in OneWorker : Respond(w)
  \/ Tick
  \/ \E entry_id \in 1..Len(store), score \in Scores : AdminScore(entry_id, score)

SpecBoard == Init /\ [][NextBoard]_vars

----------------------------------------------------------------------------
(* The properties *)

\* the normalised form of an email: trimmed and lower-cased
Normalized(email) == Lower(Strip(email))

\* the email belongs to the institutional domain
Institutional(email) ==
  /\ Len(email) >= Len(StevensSuffix)
  /\ \A k \in 1..Len(StevensSuffix) :
       email[Len(email) - Len(StevensSuffix) + k] = StevensSuffix[k]

\* some entry of tbl has this normalised email
Used(tbl, email) == \E i \in 1..Len(tbl) : Normalized(tbl[i].email) = email

\* the "submission closed" failure
Closed(r) ==
  /\ r.status = 403
  /\ r.detail \in {"Bracket entry is closed (deadline passed).",
                   "Bracket submissions are closed (deadline passed)."}

\* C1: under any interleaving of concurrent registrations, no two entries
\* of the store have the same normalised email.
C1_EmailUnique ==
  \A i, j \in 1..Len(store) :
    i /= j => Normalized(store[i].email) /= Normalized(store[j].email)

\* two requests for the same normalised email both passed the pre-check; one
\* was inserted and the constraint refused the other
C1_Witness ==
  \E w1, w2 \in Workers :
    /\ pc[w1] = "done" /\ req[w1].op = "create_entry" /\ resp[w1].status = 200
    /\ pc[w2] = "done" /\ req[w2].op = "create_entry" /\ resp[w2].status = 500
    /\ req[w1].entry.email /= req[w2].entry.email
    /\ Normalized(req[w1].entry.email) = Normalized(req[w2].entry.email)
    /\ Len(store) = 1

\* C2: a registration whose insert violates the uniqueness constraint is
\* answered with the conflict failure (409) and with no other failure.
C2_ViolationIsConflict ==
  [][\A w \in Workers :
       (/\ pc[w] = "create_commit"
        /\ pc'[w] = "done"
        /\ Used(store, Normalized(req[w].entry.email)))
       => resp'[w].status = 409]_vars

\* C3: a registration, and a submission to an existing entry, whose deadline
\* check is evaluated at or after the deadline is rejected as closed and
\* leaves the store as it was; evaluated before the deadline, with the other
\* preconditions holding, each goes through every step and succeeds.
C3_DeadlineGates ==
  [][\A w \in Workers :
       /\ (pc[w] = "idle" /\ req'[w].op = "create_entry" /\ now >= BRACKET_DEADLINE)
          => (pc'[w] = "done" /\ Closed(resp'[w]) /\ store' = store)
       /\ (pc[w] = "submit_check" /\ pc'[w] /= pc[w] /\ now >= BRACKET_DEADLINE)
          => (pc'[w] = "done" /\ Closed(resp'[w]) /\ store' = store)
       /\ (/\ pc[w] = "idle" /\ req'[w].op = "create_entry" /\ now < BRACKET_DEADLINE
           /\ Institutional(Normalized(req'[w].entry.email)))
          => pc'[w] = "create_query"
       /\ (/\ pc[w] = "create_query" /\ pc'[w] /= pc[w]
           /\ ~Used(store, Normalized(req[w].entry.email)))
          => pc'[w] = "create_commit"
       /\ (/\ pc[w] = "create_commit" /\ pc'[w] /= pc[w]
           /\ ~Used(store, Normalized(req[w].entry.email)))
          => /\ pc'[w] = "done" /\ resp'[w].status = 200
             /\ Len(store') = Len(store) + 1
             /\ store'[Len(store')].email = Normalized(req[w].entry.email)
       /\ (/\ pc[w] = "idle" /\ req'[w].op = "submit_bracket"
           /\ req'[w].entry_id \in 1..Len(store))
          => pc'[w] = "submit_check"
       /\ (/\ pc[w] = "submit_check" /\ pc'[w] /= pc[w] /\ now < BRACKET_DEADLINE
           /\ ~loc[w].entry[1].locked)
          => pc'[w] = "submit_commit"
       /\ (pc[w] = "submit_commit" /\ pc'[w] /= pc[w])
          => /\ pc'[w] = "done" /\ resp'[w].status = 200
             /\ EntryBody(store'[req[w].entry_id]).bracket = req[w].bracket]_vars

\* an entry registered before the deadline, with a bracket saved before
\* it, and a further submission to it, unlocked, refused at the deadline
C3_Witness ==
  \E w \in Workers :
    /\ pc[w] = "done" /\ req[w].op = "submit_bracket" /\ Closed(resp[w])
    /\ now = BRACKET_DEADLINE
    /\ ~store[req[w].entry_id].locked
    /\ store[req[w].entry_id].created_at < BRACKET_DEADLINE
    /\ store[req[w].entry_id].bracket /= None
    /\ store[req[w].entry_id].bracket /= Some(JsonDumps(req[w].bracket))

\* C4: a submission to an entry whose locked flag is true fails with 403,
\* before and after the deadline and whatever the document, and leaves the
\* store as it was.
C4_LockedRejects ==
  [][\A w \in Workers :
       /\ (/\ pc[w] = "idle" /\ req'[w].op = "submit_bracket"
           /\ req'[w].entry_id \in 1..Len(store)
           /\ store[req'[w].entry_id].locked)
          => (pc'[w] = "submit_check" /\ loc'[w].entry[1].locked /\ store' = store)
       /\ (pc[w] = "submit_check" /\ pc'[w] /= pc[w] /\ loc[w].entry[1].locked)
          => (pc'[w] = "done" /\ resp'[w].status = 403 /\ store' = store)]_vars

\* before the deadline, a submission to a locked entry that holds another
\* bracket was refused as locked
C4_Witness ==
  \E w \in Workers :
    /\ pc[w] = "done" /\ req[w].op = "submit_bracket"
    /\ resp[w].status = 403 /\ resp[w].detail = "Bracket is locked"
    /\ now < BRACKET_DEADLINE
    /\ loc[w].entry[1].locked
    /\ store[req[w].entry_id].bracket /= None
    /\ store[req[w].entry_id].bracket /= Some(JsonDumps(req[w].bracket))

\* C5: before the deadline, a registration whose normalised email is that of
\* an existing entry reaches the pre-check and fails there with 409, and the
\* store stays as it was.
C5_DuplicateConflicts ==
  [][\A w \in Workers :
       /\ (/\ pc[w] = "idle" /\ req'[w].op = "create_entry" /\ now < BRACKET_DEADLINE
           /\ Used(store, Normalized(req'[w].entry.email)))
          => pc'[w] = "create_query"
       /\ (/\ pc[w] = "create_query" /\ pc'[w] /= pc[w]
           /\ Used(store, Normalized(req[w].entry.email)))
          => (pc'[w] = "done" /\ resp'[w].status = 409 /\ store' = store)]_vars

\* "A@Stevens.EDU " was refused as a duplicate of the stored "a@stevens.edu"
C5_Witness ==
  \E w \in Workers :
    /\ pc[w] = "done" /\ req[w].op = "create_entry" /\ resp[w].status = 409
    /\ req[w].entry.email =
         <<"A", "@", "S", "t", "e", "v", "e", "n", "s", ".", "E", "D", "U", " ">>
    /\ Len(store) = 1
    /\ store[1].email = <<"a">> \o StevensSuffix
    /\ store[1].name = <<"A", "l">> /\ store[1].username = None

\* C6: right after a successful submission of document D, get_entry returns
\* a bracket equal to D, whatever the entry held before.
C6_RoundTrip ==
  \A w \in Workers :
    (pc[w] = "done" /\ req[w].op = "submit_bracket" /\ resp[w].status = 200)
    => EntryBody(store[req[w].entry_id]).bracket = req[w].bracket

\* the entry held a two-key document; a one-key document was submitted over it
C6_Witness ==
  \E w \in Workers :
    /\ pc[w] = "done" /\ req[w].op = "submit_bracket" /\ resp[w].status = 200
    /\ Truthy(loc[w].entry[1].bracket)
    /\ Len(JsonLoads(loc[w].entry[1].bracket[1])) = 2
    /\ Len(req[w].bracket) = 1
    /\ EntryBody(store[req[w].entry_id]).bracket = req[w].bracket

\* C7: the leaderboard returns every entry once, and of two adjacent rows
\* the earlier has the higher score, or the same score and a created_at that
\* is not later.
C7_LeaderboardOrdered ==
  \A w \in Workers :
    (pc[w] = "done" /\ req[w].op = "leaderboard")
    => LET rows == resp[w].body
       IN /\ Len(rows) = Len(store)
          /\ \A i \in 1..Len(store) : \E k \in 1..Len(rows) : rows[k].id = i
          /\ \A k \in 1..Len(rows) - 1 :
               \/ rows[k].score > rows[k + 1].score
               \/ /\ rows[k].score = rows[k + 1].score
                  /\ store[rows[k].id].created_at <= store[rows[k + 1].id].created_at

\* A (score 10, created first), B (score 20), C (score 10, created last)
\* were returned as B, A, C
C7_Witness ==
  \E w \in Workers :
    /\ pc[w] = "done" /\ req[w].op = "leaderboard"
    /\ Len(store) = 3
    /\ store[1].score = 10 /\ store[2].score = 20 /\ store[3].score = 10
    /\ store[1].created_at < store[3].created_at
    /\ [k \in 1..3 |-> resp[w].body[k].id] = <<2, 1, 3>>
    /\ [k \in 1..3 |-> resp[w].body[k].score] = <<20, 10, 10>>

\* C8: a registration whose normalised email is not institutional is
\* refused with 400 or 403 and leaves the store as it was; every stored
\* email is institutional.
C8_DomainRestricted ==
  [][/\ \A w \in Workers :
          (/\ pc[w] = "idle" /\ req'[w].op = "create_entry"
           /\ ~Institutional(Normalized(req'[w].entry.email)))
          => (pc'[w] = "done" /\ resp'[w].status \in {400, 403} /\ store' = store)
     /\ \A i \in 1..Len(store') : Institutional(store'[i].email)]_vars

\* before the deadline, with entries stored, an address outside the domain
\* was refused
C8_Witness ==
  \E w \in Workers :
    /\ pc[w] = "done" /\ req[w].op = "create_entry" /\ resp[w].status = 400
    /\ ~Institutional(Normalized(req[w].entry.email))
    /\ now < BRACKET_DEADLINE
    /\ Len(store) = 2

\* C9: once an entry is locked, no step changes its bracket.
C9_LockedBracketFrozen ==
  [][\A i \in 1..Len(store) :
       store[i].locked => store'[i].bracket = store[i].bracket]_vars

\* C10: a step of a handler never removes an entry and never changes the
\* id, name, email, username, score, locked or created_at of one; a successful
\* registration appends one entry with score 0, locked false and no
\* bracket; a submission's commit changes the addressed entry only; every
\* other step of a handler leaves the store as it was.
C10_Frame ==
  [][/\ Len(store') >= Len(store)
     /\ \A w \in Workers :
          pc'[w] /= pc[w] =>
            /\ \A i \in 1..Len(store) : store'[i] = [store[i] EXCEPT !.bracket = store'[i].bracket]
            /\ IF pc[w] = "create_commit" /\ resp'[w].status = 200
               THEN /\ Len(store') = Len(store) + 1
                    /\ SubSeq(store', 1, Len(store)) = store
                    /\ store'[Len(store')].score = 0
                    /\ store'[Len(store')].locked = FALSE
                    /\ store'[Len(store')].bracket = None
               ELSE IF pc[w] = "submit_commit"
               THEN /\ Len(store') = Len(store)
                    /\ \A i \in 1..Len(store) : i /= req[w].entry_id => store'[i] = store[i]
               ELSE store' = store]_vars

\* a bracket was saved to an entry that was scored and locked after the
\* handler had read it, beside another entry holding a bracket of its own
C10_Witness ==
  \E w \in Workers :
    /\ pc[w] = "done" /\ req[w].op = "submit_bracket" /\ resp[w].status = 200
    /\ Len(store) = 2
    /\ store[req[w].entry_id].locked /\ ~loc[w].entry[1].locked
    /\ store[req[w].entry_id].score = 10 /\ loc[w].entry[1].score = 0
    /\ store[req[w].entry_id].bracket = Some(JsonDumps(req[w].bracket))
    /\ \E i \in 1..2 : /\ i /= req[w].entry_id
                       /\ store[i].bracket /= None
                       /\ store[i].bracket /= store[req[w].entry_id].bracket

====
